---------------------------- MODULE Spec2Model ----------------------------
(***************************************************************************)
(* Credential issuance and verification of web-verify: the API-key helpers *)
(* of utils/api_key.py, the request-time gate of app/auth.py, the startup  *)
(* guard and error handlers of app/__init__.py and the key-lifecycle       *)
(* commands of manage.py, as one state machine over the api_keys table.    *)
(*                                                                         *)
(* Strings are sequences of one-character strings, bytes are integers in   *)
(* 0..255.  A Python call either returns a value or raises: its result is  *)
(* the record [exc |-> "none", val |-> v] or [exc |-> <class>, val |-> _]. *)
(***************************************************************************)
EXTENDS Integers, Sequences, FiniteSets, TLC

(* ------------------------------ bounds -------------------------------- *)

\* Number of credential records the operator creates in one behaviour.
MaxKeys == 2

\* The clock runs from 0 to MaxTime.
MaxTime == 1

\* the largest length asked of generate_api_key on its own
MaxLength == 13

\* the largest number of rows the users or the purchases table is let grow to
MaxRows == 3

(* ------------------------- program constants -------------------------- *)

SALT_SIZE == 16

PBKDF2_DKLEN == 32

DEFAULT_ITERATIONS == 100000

\* manage.py: --length default of create, and the length init-key passes.
CLI_KEY_LENGTH == 48

(* --------------------------- Python values ---------------------------- *)

\* Python's None (and any non-str value): a sequence that is no string.
None == << "None" >>

Ret(v) == [exc |-> "none", val |-> v]

Raise(e) == [exc |-> e, val |-> << >>]

\* A sequence given by its elements, built at once.
AsSeq(f) == f \o << >>

Ascii ==
  << " ", "!", "\"", "#", "$", "%", "&", "'", "(", ")", "*", "+", ",", "-", ".", "/",
     "0", "1", "2", "3", "4", "5", "6", "7", "8", "9", ":", ";", "<", "=", ">", "?",
     "@", "A", "B", "C", "D", "E", "F", "G", "H", "I", "J", "K", "L", "M", "N", "O",
     "P", "Q", "R", "S", "T", "U", "V", "W", "X", "Y", "Z", "[", "\\", "]", "^", "_",
     "grave", "a", "b", "c", "d", "e", "f", "g", "h", "i", "j", "k", "l", "m", "n", "o",
     "p", "q", "r", "s", "t", "u", "v", "w", "x", "y", "z", "{", "|", "}", "~" >>

\* ord() of a printable ASCII character (the grave accent, 96, is spelled out:
\* the lexer takes no backtick inside a string).
Ord(c) == 31 + (CHOOSE i \in 1..Len(Ascii) : Ascii[i] = c)

\* str.encode("utf-8") on ASCII text: one byte per character.
Utf8(s) == AsSeq([i \in 1..Len(s) |-> Ord(s[i])])

Digits == << "0", "1", "2", "3", "4", "5", "6", "7", "8", "9" >>

IsDigit(c) == \E i \in 1..Len(Digits) : Digits[i] = c

DigitVal(c) == (CHOOSE i \in 1..Len(Digits) : Digits[i] = c) - 1

RECURSIVE DecNat(_)
DecNat(n) == IF n < 10 THEN << Digits[n + 1] >>
             ELSE Append(DecNat(n \div 10), Digits[(n % 10) + 1])

\* format of an int inside an f-string.
DecStr(n) == IF n < 0 THEN << "-" >> \o DecNat(0 - n) ELSE DecNat(n)

Min(S) == CHOOSE x \in S : \A y \in S : x <= y

\* the element of a one-element set
The(S) == CHOOSE x \in S : TRUE

\* index of the first occurrence of c in s at or after i, 0 when there is none
FindFrom(s, c, i) ==
  LET idx == {j \in i..Len(s) : s[j] = c}
  IN  IF idx = {} THEN 0 ELSE Min(idx)

RECURSIVE SplitFrom(_, _, _, _)
SplitFrom(s, sep, i, n) ==
  LET j == FindFrom(s, sep, i)
  IN  IF n = 0 \/ j = 0 THEN << SubSeq(s, i, Len(s)) >>
      ELSE << SubSeq(s, i, j - 1) >> \o SplitFrom(s, sep, j + 1, n - 1)

\* str.split(sep, maxsplit)
Split(s, sep, maxsplit) == SplitFrom(s, sep, 1, maxsplit)

\* s1 in s2 for strings
Contains(s, sub) ==
  \E i \in 1..(Len(s) - Len(sub) + 1) : SubSeq(s, i, i + Len(sub) - 1) = sub

(* ------------------------------ base64 -------------------------------- *)

Std64 ==
  << "A", "B", "C", "D", "E", "F", "G", "H", "I", "J", "K", "L", "M", "N", "O", "P",
     "Q", "R", "S", "T", "U", "V", "W", "X", "Y", "Z", "a", "b", "c", "d", "e", "f",
     "g", "h", "i", "j", "k", "l", "m", "n", "o", "p", "q", "r", "s", "t", "u", "v",
     "w", "x", "y", "z", "0", "1", "2", "3", "4", "5", "6", "7", "8", "9", "+", "/" >>

\* value of a character of the standard alphabet, 64 for any other character
Std64Index(c) ==
  IF \E i \in 1..64 : Std64[i] = c
  THEN (CHOOSE i \in 1..64 : Std64[i] = c) - 1
  ELSE 64

\* base64.b64encode: three bytes to four characters, "=" padding.  Character
\* j of the output is computed from the bytes of its group.
B64Char(bs, j) ==
  LET g == 3 * ((j - 1) \div 4)
      has2 == g + 2 <= Len(bs)
      has3 == g + 3 <= Len(bs)
      b1 == bs[g + 1]
      b2 == IF has2 THEN bs[g + 2] ELSE 0
      b3 == IF has3 THEN bs[g + 3] ELSE 0
  IN  CASE (j - 1) % 4 = 0 -> Std64[(b1 \div 4) + 1]
        [] (j - 1) % 4 = 1 -> Std64[((b1 % 4) * 16 + (b2 \div 16)) + 1]
        [] (j - 1) % 4 = 2 ->
             IF has2 THEN Std64[((b2 % 16) * 4 + (b3 \div 64)) + 1] ELSE "="
        [] OTHER -> IF has3 THEN Std64[(b3 % 64) + 1] ELSE "="

b64encode(bs) == AsSeq([j \in 1..(4 * ((Len(bs) + 2) \div 3)) |-> B64Char(bs, j)])

\* the translation of base64.urlsafe_b64encode: "+" to "-", "/" to "_"
ToUrlSafe(s) ==
  AsSeq([i \in 1..Len(s) |->
           IF s[i] = "+" THEN "-" ELSE IF s[i] = "/" THEN "_" ELSE s[i]])

\* the translation of base64.urlsafe_b64decode: "-" to "+", "_" to "/"
FromUrlSafe(s) ==
  AsSeq([i \in 1..Len(s) |->
           IF s[i] = "-" THEN "+" ELSE IF s[i] = "_" THEN "/" ELSE s[i]])

urlsafe_b64encode(bs) == ToUrlSafe(b64encode(bs))

RECURSIVE RStrip(_, _)
RStrip(s, c) ==
  IF Len(s) > 0 /\ s[Len(s)] = c THEN RStrip(SubSeq(s, 1, Len(s) - 1), c) ELSE s

RECURSIVE LStrip(_, _)
LStrip(s, c) ==
  IF Len(s) > 0 /\ s[1] = c THEN LStrip(SubSeq(s, 2, Len(s)), c) ELSE s

\* binascii.a2b_base64 in its default, non-strict mode.  Characters outside
\* the alphabet are skipped.  A "=" ends the data once the current quantum can
\* be completed by the padding seen since the last data character: one "=" after
\* three data characters, two after two.  Data that ends inside a quantum with
\* no such padding is an error.  What was read is decoded four characters to
\* three bytes.
IsData(c) == Std64Index(c) # 64

\* number of data characters of s before position i
DataBefore(s, i) == Cardinality({j \in 1..(i - 1) : IsData(s[j])})

\* number of "=" at or before position i since the last data character
PadsAt(s, i) ==
  Cardinality({j \in 1..i : s[j] = "=" /\ \A k \in j..i : ~IsData(s[k])})

EndsData(s, i) ==
  /\ s[i] = "="
  /\ DataBefore(s, i) % 4 >= 2
  /\ (DataBefore(s, i) % 4) + PadsAt(s, i) >= 4

a2b_base64(s) ==
  LET stops == {i \in 1..Len(s) : EndsData(s, i)}
      upto == IF stops = {} THEN Len(s) ELSE Min(stops) - 1
      v == SelectSeq(SubSeq(s, 1, upto), IsData)
      n == Len(v)
      nbytes == 3 * (n \div 4) + (IF n % 4 = 0 THEN 0 ELSE (n % 4) - 1)
      sx(k) == Std64Index(v[k])
      byte(k) ==
        LET g == 4 * ((k - 1) \div 3)
        IN  CASE (k - 1) % 3 = 0 -> sx(g + 1) * 4 + (sx(g + 2) \div 16)
              [] (k - 1) % 3 = 1 -> (sx(g + 2) % 16) * 16 + (sx(g + 3) \div 4)
              [] OTHER -> (sx(g + 3) % 4) * 64 + sx(g + 4)
  IN  IF stops = {} /\ n % 4 # 0 THEN Raise("binascii.Error")
      ELSE Ret(AsSeq([k \in 1..nbytes |-> byte(k)]))

\* a str passed to the decoder must be ASCII
IsAscii(s) == \A i \in 1..Len(s) : \E j \in 1..Len(Ascii) : Ascii[j] = s[i]

urlsafe_b64decode(s) ==
  IF ~IsAscii(s) THEN Raise("ValueError")
  ELSE a2b_base64(FromUrlSafe(s))

_b64(data) == RStrip(urlsafe_b64encode(data), "=")

_unb64(s) ==
  LET padding == AsSeq([i \in 1..((4 - (Len(s) % 4)) % 4) |-> "="])
  IN  urlsafe_b64decode(s \o padding)

(* ------------------------------- int() -------------------------------- *)

\* the digits of an int literal: digits, single underscores between digits
DigitsOk(s) ==
  /\ Len(s) > 0
  /\ IsDigit(s[1])
  /\ IsDigit(s[Len(s)])
  /\ \A i \in 1..Len(s) : IsDigit(s[i]) \/ s[i] = "_"
  /\ \A i \in 1..(Len(s) - 1) : ~(s[i] = "_" /\ s[i + 1] = "_")

RECURSIVE DigitsValue(_, _, _)
DigitsValue(s, i, acc) ==
  IF i > Len(s) THEN acc
  ELSE IF s[i] = "_" THEN DigitsValue(s, i + 1, acc)
       ELSE DigitsValue(s, i + 1, acc * 10 + DigitVal(s[i]))

\* int(s) for a str: surrounding blanks, an optional sign, decimal digits.
\* More than nine characters of digits do not fit 32-bit integers and
\* are reported as OverflowError (what pbkdf2_hmac raises for a huge count).
IntParse(s) ==
  LET t == RStrip(LStrip(s, " "), " ")
      signed == Len(t) > 0 /\ (t[1] = "-" \/ t[1] = "+")
      body == IF signed THEN SubSeq(t, 2, Len(t)) ELSE t
  IN  IF ~DigitsOk(body) THEN Raise("ValueError")
      ELSE IF Len(body) > 9 THEN Raise("OverflowError")
      ELSE IF signed /\ t[1] = "-" THEN Ret(0 - DigitsValue(body, 1, 0))
      ELSE Ret(DigitsValue(body, 1, 0))

(* ----------------------------- PBKDF2 --------------------------------- *)

\* Stand-in for the pseudo-random function: a position-weighted sum of the
\* bytes, folded by halves.
Weight(i) == ((i * 7919) % 1009) + 1

RECURSIVE WSum(_, _, _)
WSum(bs, lo, hi) ==
  IF lo > hi THEN 0
  ELSE IF lo = hi THEN (bs[lo] + 1) * Weight(lo)
  ELSE LET mid == (lo + hi) \div 2
       IN  WSum(bs, lo, mid) + WSum(bs, mid + 1, hi)

Seed(password, salt, iterations) ==
  (WSum(password, 1, Len(password)) * 3 + WSum(salt, 1, Len(salt)) * 5
     + (iterations % 1000003) * 7) % 8388593

\* hashlib.pbkdf2_hmac("sha256", password, salt, iterations, dklen): a
\* deterministic function of password, salt and iteration count whose output
\* for a shorter dklen is a prefix of the output for a longer one; it rejects
\* an iteration count or a key length below 1.
pbkdf2_hmac(password, salt, iterations, dklen) ==
  IF iterations < 1 \/ dklen < 1 THEN Raise("ValueError")
  ELSE LET seed == Seed(password, salt, iterations)
       IN  Ret(AsSeq([i \in 1..dklen |->
                         ((((seed + 977 * i) % 8388593) * 131) \div 1024) % 256]))

(* --------------------------- utils/api_key ---------------------------- *)

AlgoTag == << "p", "b", "k", "d", "f", "2", "_", "s", "h", "a", "2", "5", "6" >>

KeyPrefix == << "s", "k", "_" >>

IsStr(x) == x # None

\* math.ceil(length * 3 / 4)
CeilThreeQuarters(length) == (length * 3 + 3) \div 4

\* secrets.token_urlsafe(nbytes) on the random bytes rnd
token_urlsafe(rnd) == _b64(rnd)

\* generate_api_key(length); draws[j] is the j-th draw of nbytes random bytes
RECURSIVE ExtendToken(_, _, _, _)
ExtendToken(token, length, draws, j) ==
  IF Len(token) < length /\ j <= Len(draws)
  THEN ExtendToken(token \o token_urlsafe(draws[j]), length, draws, j + 1)
  ELSE token

generate_api_key_NoLengthCheck(length, draws) ==
  LET token == ExtendToken(token_urlsafe(draws[1]), length, draws, 2)
  IN  Ret(KeyPrefix \o SubSeq(token, 1, length))

generate_api_key(length, draws) ==
  IF length < 8 THEN Raise("ValueError")
  ELSE LET token == ExtendToken(token_urlsafe(draws[1]), length, draws, 2)
       IN  Ret(KeyPrefix \o SubSeq(token, 1, length))

\* hash_api_key(api_key, iterations=..., method=...); salt is the value drawn
\* by secrets.token_bytes(SALT_SIZE)
hash_api_key(api_key, iterations, method, salt) ==
  IF ~IsStr(api_key) THEN Raise("TypeError")
  ELSE IF method # "pbkdf2" THEN Raise("ValueError")
  ELSE LET dk == pbkdf2_hmac(Utf8(api_key), salt, iterations, PBKDF2_DKLEN)
       IN  IF dk.exc # "none" THEN dk
           ELSE Ret(AlgoTag \o << "$" >> \o DecStr(iterations) \o << "$" >>
                    \o _b64(salt) \o << "$" >> \o _b64(dk.val))

\* hmac.compare_digest on two byte strings
compare_digest(a, b) == a = b

\* the same function without the digest comparison
verify_api_key_anydigest(api_key, stored) ==
  IF ~IsStr(api_key) \/ ~IsStr(stored) THEN Ret(FALSE)
  ELSE Ret(Len(stored) > 0 /\ FindFrom(stored, "$", 1) # 0)

verify_api_key(api_key, stored) ==
  IF ~IsStr(api_key) \/ ~IsStr(stored) THEN Ret(FALSE)
  ELSE IF Len(stored) = 0 \/ FindFrom(stored, "$", 1) = 0 THEN Ret(FALSE)
  ELSE LET parts == Split(stored, "$", 3)
       IN  IF Len(parts) # 4 THEN Ret(FALSE)
           ELSE IF parts[1] # AlgoTag THEN Ret(FALSE)
           ELSE LET iterations == IntParse(parts[2])
                    salt == _unb64(parts[3])
                    expected == _unb64(parts[4])
                IN  IF iterations.exc = "ValueError" THEN Ret(FALSE)
                    ELSE IF salt.exc # "none" \/ expected.exc # "none" THEN Ret(FALSE)
                    ELSE IF iterations.exc # "none" THEN Raise(iterations.exc)
                    ELSE LET derived == pbkdf2_hmac(Utf8(api_key), salt.val,
                                                    iterations.val, Len(expected.val))
                         IN  IF derived.exc # "none" THEN derived
                             ELSE Ret(compare_digest(derived.val, expected.val))

\* generate_key_id(): uuid.uuid4().hex, 32 lowercase hexadecimal characters;
\* n numbers the call, distinct calls give distinct ids.
HexDigits ==
  << "0", "1", "2", "3", "4", "5", "6", "7", "8", "9", "a", "b", "c", "d", "e", "f" >>

generate_key_id(n) ==
  AsSeq([i \in 1..32 |-> IF i = 13 THEN "4"
                         ELSE IF i = 17 THEN "8"
                         ELSE HexDigits[((n * 7 + i) % 16) + 1]])

\* The operating system's entropy: the bytes the n-th call of new_api_key_record
\* draws for the token and for the salt.  Distinct calls draw distinct bytes.
TokenDraw(n, nbytes) == AsSeq([i \in 1..nbytes |-> (n * 37 + i * 11) % 256])

SaltDraw(n) == AsSeq([i \in 1..SALT_SIZE |-> (n * 91 + i * 3) % 256])

\* new_api_key_record(length): (id, key, stored) of the n-th call
new_api_key_record(length, n) ==
  LET key == generate_api_key(length, << TokenDraw(n, CeilThreeQuarters(length)) >>)
      stored == hash_api_key(key.val, DEFAULT_ITERATIONS, "pbkdf2", SaltDraw(n))
  IN  IF key.exc # "none" THEN key
      ELSE IF stored.exc # "none" THEN stored
      ELSE Ret(<< generate_key_id(n), key.val, stored.val >>)

(* ------------------------ the values of a run ------------------------- *)

Calls == 1..MaxKeys

\* what the n-th create or init-key prints and stores
Issued == { << n, new_api_key_record(CLI_KEY_LENGTH, n).val >> : n \in Calls }

IssuedAt(n) == (CHOOSE t \in Issued : t[1] = n)[2]

IdOf(n) == IssuedAt(n)[1]

KeyOf(n) == IssuedAt(n)[2]

HashOf(n) == IssuedAt(n)[3]

KeyIds == {IdOf(n) : n \in Calls}

\* the four fields of a stored hash, joined the way hash_api_key joins them
Joined(algo, iter_s, salt_b64, dk_b64) ==
  algo \o << "$" >> \o iter_s \o << "$" >> \o salt_b64 \o << "$" >> \o dk_b64

\* the fields of the hash stored for the first key
Fields == Split(HashOf(1), "$", 3)

\* Values of the hash column (Text, NOT NULL) that hash_api_key did not
\* write, each differing from the first key's stored hash in one respect.
EmptyStored == << >>

NoDollar == << "a", "b", "c" >>

ThreeFields == Fields[1] \o << "$" >> \o Fields[2] \o << "$" >> \o Fields[3]

FiveFields == HashOf(1) \o << "$", "x" >>

FiveFieldsPadded == HashOf(1) \o << "$", "=" >>

WrongTag == Joined(<< "m", "d", "5" >>, Fields[2], Fields[3], Fields[4])

IterNotInt == Joined(Fields[1], << "x", "1" >>, Fields[3], Fields[4])

IterNegative == Joined(Fields[1], << "-", "1" >>, Fields[3], Fields[4])

IterZero == Joined(Fields[1], << "0" >>, Fields[3], Fields[4])

BadSalt == Joined(Fields[1], Fields[2], << "A" >>, Fields[4])

BadDigest == Joined(Fields[1], Fields[2], Fields[3], << "A" >>)

EmptyDigest == Joined(Fields[1], Fields[2], Fields[3], << >>)

StoredSamples ==
  { EmptyStored, NoDollar, ThreeFields, FiveFields, FiveFieldsPadded, WrongTag,
    IterNotInt, IterNegative, IterZero, BadSalt, BadDigest, EmptyDigest }

\* verify_api_key on the keys of a run and the values the hash column may
\* hold, evaluated once
VerifyTable ==
  { << KeyOf(k), h, verify_api_key(KeyOf(k), h) >> :
      k \in Calls, h \in {HashOf(n) : n \in Calls} \cup StoredSamples }

\* the call verify_api_key(provided, row.hash) of the gate
Verify(provided, hash) ==
  (CHOOSE t \in VerifyTable : t[1] = provided /\ t[2] = hash)[3]

(* ------------------------------ state --------------------------------- *)

VARIABLES
  api_keys,      \* the api_keys table: id -> row, for the rows that exist
  issued,        \* number of new_api_key_record calls made so far
  now,           \* the wall clock, datetime.now(timezone.utc)
  dbUp,          \* whether the database accepts connections
  booted,        \* create_app() has returned
  DB_AVAILABLE,  \* app.config["DB_AVAILABLE"], True when unset
  req,           \* the request the worker is handling, or handled last
  peer,          \* the request of a second worker, while that worker waits
  out,           \* what the last manage.py command printed
  call,          \* a call of a utils/api_key function: arguments and result
  users,         \* the users table, rows in the order of their INSERT
  purchases,     \* the purchases table, rows in the order of their INSERT
  cli            \* the init-key invocations under way: position and report

vars ==
  << api_keys, issued, now, dbUp, booted, DB_AVAILABLE, req, peer, out, call,
     users, purchases, cli >>

\* values of the X-API-Key header: absent, empty, or one of the n keys handed
\* out so far (a key is known to a client only once cmd_create has printed it)
KeyHeaders(n) == {None, << >>} \cup {KeyOf(k) : k \in 1..n}

\* values of the X-API-Key-Id header: absent, empty, or a key id, whether or
\* not a row with that id exists
IdHeaders == {None, << >>} \cup KeyIds

Methods == {"GET", "OPTIONS"}

Paths == {"/health", "/verify/spigot"}

\* Python truthiness of a header value: None and "" are false
Truthy(h) == h # None /\ Len(h) > 0

\* the json body and status of a response; status 0: no response was
\* returned by the gate and the request goes on to its view function
NoResponse == [status |-> 0, error |-> "", detail |-> ""]

Response(status, error, detail) == [status |-> status, error |-> error, detail |-> detail]

\* a NULL timestamp column
NULL == -1

\* The frame of the view function before Flask calls it.  fn is the view the
\* route leads to, platform, ext and slug what it takes from the URL and the
\* JSON body, u and r the ids of the user and the resource it loaded (0 for
\* none), status and duplicate its response, inserts, updates and deletes the
\* number of rows of users and purchases it inserted, updated and deleted.
NoView ==
  [pc |-> "idle", fn |-> "", platform |-> "", ext |-> "", slug |-> "", u |-> 0,
   r |-> 0, status |-> 0, duplicate |-> FALSE, inserts |-> 0, updates |-> 0,
   deletes |-> 0, recorded |-> FALSE]

\* The worker's frame between requests.  provided and kid are the two request
\* headers, rows the result of the SELECT, idx the loop position, t0 the time
\* of the SELECT, ts the value given to last_used_at, reads and writes the
\* statements sent to the database that were answered, api_key_id is
\* g.api_key_id, view the frame of the view function.
Idle ==
  [pc |-> "idle", method |-> "GET", path |-> "/health", provided |-> None,
   kid |-> None, rows |-> << >>, idx |-> 0, t0 |-> 0, ts |-> NULL, reads |-> 0,
   writes |-> 0, resp |-> NoResponse, api_key_id |-> None, view |-> NoView]

\* app/models.py APIKey: the columns of a row
Row_UsedAtCreation(id, name, hash, created) ==
  [id |-> id, name |-> name, hash |-> hash, method |-> "pbkdf2_sha256",
   active |-> TRUE, created_at |-> created, last_used_at |-> created, scopes |-> None]

Row_Inactive(id, name, hash, created) ==
  [id |-> id, name |-> name, hash |-> hash, method |-> "pbkdf2_sha256",
   active |-> FALSE, created_at |-> created, last_used_at |-> NULL, scopes |-> None]

Row(id, name, hash, created) ==
  [id |-> id, name |-> name, hash |-> hash, method |-> "pbkdf2_sha256",
   active |-> TRUE, created_at |-> created, last_used_at |-> NULL, scopes |-> None]

\* nothing printed yet; cmd is the subcommand, kid the id it was given or
\* made, changed the rowcount it saw, key the plaintext it printed, text the
\* first line it printed; seq tells one run of the program from the next
NoOutput ==
  [cmd |-> "", kid |-> None, changed |-> 0, key |-> None, text |-> "", seq |-> 0]

\* no function called yet; of holds the arguments of the hash_api_key call
\* whose result a verify_api_key call was given, if it was given one
NoCall == [fn |-> "", args |-> << >>, of |-> << >>, result |-> Ret(None)]

\* the init-key invocations, none of them started: exists is the outcome of
\* the SELECT, kid the id of the row it made, text the first line it printed
Invocations == 1..MaxKeys

NoCli == [p \in Invocations |-> [pc |-> "start", exists |-> FALSE, kid |-> None, text |-> ""]]

Init ==
  /\ api_keys = << >>
  /\ issued = 0
  /\ now = 0
  /\ dbUp \in BOOLEAN
  /\ booted = FALSE
  /\ DB_AVAILABLE = TRUE
  /\ req = Idle
  /\ peer = Idle
  /\ out = NoOutput
  /\ call = NoCall
  /\ users = << >>
  /\ purchases = << >>
  /\ cli = NoCli

(* ---------------------------- environment ------------------------------ *)

Tick ==
  /\ now < MaxTime
  /\ now' = now + 1
  /\ UNCHANGED << api_keys, issued, dbUp, booted, DB_AVAILABLE, req, peer, out, call, users, purchases, cli >>

DbFail ==
  /\ dbUp
  /\ dbUp' = FALSE
  /\ UNCHANGED << api_keys, issued, now, booted, DB_AVAILABLE, req, peer, out, call, users, purchases, cli >>

DbRecover ==
  /\ ~dbUp
  /\ dbUp' = TRUE
  /\ UNCHANGED << api_keys, issued, now, booted, DB_AVAILABLE, req, peer, out, call, users, purchases, cli >>

(* ------------------------- app/__init__.py ----------------------------- *)

\* create_app(): asyncio.run(_bootstrap()) creates the tables and seeds; an
\* exception out of it (the database is down) marks the database unavailable.
\* No API key is created here.
create_app ==
  /\ ~booted
  /\ booted' = TRUE
  /\ DB_AVAILABLE' = IF dbUp THEN DB_AVAILABLE ELSE FALSE
  /\ UNCHANGED << api_keys, issued, now, dbUp, req, peer, out, call, users, purchases, cli >>

\* The response Flask gives for an exception raised while handling a request:
\* the two registered handlers, and the default 500 for any other exception.
ErrorHandler(exc) ==
  CASE exc = "OperationalError" ->
         Response(503, "service_unavailable", "operational_error")
    [] exc = "PostgresError" ->
         Response(503, "service_unavailable", "postgres_error")
    [] OTHER -> Response(500, "internal_server_error", exc)

(* ----------------------------- manage.py ------------------------------- *)

\* cmd_create with the default length: one INSERT and a commit.  created_at
\* takes the column default at insert, last_used_at stays NULL.
InsertKey(name) ==
  /\ dbUp
  /\ issued < MaxKeys
  /\ LET rec == new_api_key_record(CLI_KEY_LENGTH, issued + 1).val
         row == Row(rec[1], name, rec[3], now)
     IN  api_keys' = [k \in (DOMAIN api_keys) \cup {rec[1]} |->
                        IF k = rec[1] THEN row ELSE api_keys[k]]
  /\ issued' = issued + 1
  /\ UNCHANGED << now, dbUp, booted, DB_AVAILABLE, req, peer, call, users, purchases, cli >>

\* cmd_create, what it prints left aside
cmd_create == InsertKey("generated") /\ UNCHANGED out

SetActiveRows_Toggle(table, kid, active) ==
  [k \in DOMAIN table |-> IF k = kid THEN [table[k] EXCEPT !.active = ~table[k].active]
                          ELSE table[k]]

\* _set_active(kid, active): UPDATE api_keys SET active WHERE id = kid
SetActiveRows(table, kid, active) ==
  [k \in DOMAIN table |-> IF k = kid THEN [table[k] EXCEPT !.active = active]
                          ELSE table[k]]

_set_active(kid, active) ==
  /\ dbUp
  /\ api_keys' = SetActiveRows(api_keys, kid, active)
  /\ UNCHANGED << issued, now, dbUp, booted, DB_AVAILABLE, req, peer, call, users, purchases, cli >>

\* cmd_activate and cmd_deactivate, what they print left aside
cmd_activate == \E kid \in KeyIds : _set_active(kid, TRUE) /\ UNCHANGED out

cmd_deactivate == \E kid \in KeyIds : _set_active(kid, FALSE) /\ UNCHANGED out

DeleteRows_SoftDelete(table, kid) ==
  [k \in DOMAIN table |-> IF k = kid THEN [table[k] EXCEPT !.active = FALSE]
                          ELSE table[k]]

\* cmd_delete(kid): DELETE FROM api_keys WHERE id = kid
DeleteRows(table, kid) == [k \in (DOMAIN table) \ {kid} |-> table[k]]

DeleteKey(kid) ==
  /\ dbUp
  /\ api_keys' = DeleteRows(api_keys, kid)
  /\ UNCHANGED << issued, now, dbUp, booted, DB_AVAILABLE, req, peer, call, users, purchases, cli >>

\* cmd_delete, what it prints left aside
cmd_delete == \E kid \in KeyIds : DeleteKey(kid) /\ UNCHANGED out

(* ----------------------------- app/auth.py ----------------------------- *)

\* the orderings of a finite set, as sequences without repetition
Orderings(S) ==
  {q \in [1..Cardinality(S) -> S] : \A i, j \in 1..Cardinality(S) : q[i] = q[j] => i = j}

\* the same SELECT without the condition on active
SelectById_IgnoringActive(table, kid) ==
  IF kid \in DOMAIN table THEN << table[kid] >> ELSE << >>

\* the same SELECT without the condition on id, taking an active row
SelectActive_IgnoringId(table, kid) ==
  IF \E k \in DOMAIN table : table[k].active
  THEN << table[CHOOSE k \in DOMAIN table : table[k].active] >>
  ELSE << >>

\* select(APIKey).where(APIKey.id == kid, APIKey.active.is_(True)): the result
\* of scalar_one_or_none() as a sequence of no or one row
SelectByIdActive(table, kid) ==
  IF kid \in DOMAIN table /\ table[kid].active THEN << table[kid] >> ELSE << >>

\* the same SELECT without the condition on active
SelectAll_IgnoringActive(table) ==
  Orderings({table[k] : k \in DOMAIN table})

\* select(APIKey).where(APIKey.active.is_(True)) and scalars().all(): the
\* active rows, in an order the database chooses
SelectAllActive(table) ==
  Orderings({table[k] : k \in {i \in DOMAIN table : table[i].active}})

\* the same loop starting one row late
FirstMatch_SkippingARow(rows, provided, i) ==
  Min({j \in (i + 1)..Len(rows) : Verify(provided, rows[j].hash) = Ret(TRUE)}
      \cup {Len(rows) + 1}) % (Len(rows) + 1)

\* The for loop over rows from position i: the index of the first row whose
\* hash verifies the key, 0 when the loop runs out.  An exception inside the
\* try is caught and the loop continues.
FirstMatch(rows, provided, i) ==
  Min({j \in i..Len(rows) : Verify(provided, rows[j].hash) = Ret(TRUE)}
      \cup {Len(rows) + 1}) % (Len(rows) + 1)

Exempt(method, path) == path = "/health" \/ method = "OPTIONS"

Done(r, resp) == [r EXCEPT !.pc = "done", !.resp = resp]

Unauthorized == Response(401, "unauthorized", "")

\* the same checks with the header read before the DB_AVAILABLE flag
PreChecks_KeyBeforeFlag(r, available) ==
  IF Exempt(r.method, r.path) THEN Done(r, NoResponse)
  ELSE IF ~Truthy(r.provided) THEN Done(r, Response(401, "missing api key", ""))
  ELSE IF ~available
       THEN Done(r, Response(503, "service_unavailable", "auth_db_down"))
  ELSE [r EXCEPT !.pc = "select"]

\* the same checks with the DB_AVAILABLE flag read before the exemption
PreChecks_FlagBeforeExempt(r, available) ==
  IF ~available
  THEN Done(r, Response(503, "service_unavailable", "auth_db_down"))
  ELSE IF Exempt(r.method, r.path) THEN Done(r, NoResponse)
  ELSE IF ~Truthy(r.provided) THEN Done(r, Response(401, "missing api key", ""))
  ELSE [r EXCEPT !.pc = "select"]

\* the same checks answering a missing key like a key that does not verify
PreChecks_OneReason(r, available) ==
  IF Exempt(r.method, r.path) THEN Done(r, NoResponse)
  ELSE IF ~available
       THEN Done(r, Response(503, "service_unavailable", "auth_db_down"))
  ELSE IF ~Truthy(r.provided) THEN Done(r, Unauthorized)
  ELSE [r EXCEPT !.pc = "select"]

\* require_api_key, lines 9-26: the checks made before the session is opened,
\* in the order of the code: exemption, DB_AVAILABLE, X-API-Key
PreChecks_IgnoringFlag(r, available) ==
  IF Exempt(r.method, r.path) THEN Done(r, NoResponse)
  ELSE IF ~Truthy(r.provided) THEN Done(r, Response(401, "missing api key", ""))
  ELSE [r EXCEPT !.pc = "select"]

PreChecks(r, available) ==
  IF Exempt(r.method, r.path) THEN Done(r, NoResponse)
  ELSE IF ~available
       THEN Done(r, Response(503, "service_unavailable", "auth_db_down"))
  ELSE IF ~Truthy(r.provided) THEN Done(r, Response(401, "missing api key", ""))
  ELSE [r EXCEPT !.pc = "select"]

\* a request arrives at the before_request hook
require_api_key_enter(method, path, provided, kid) ==
  /\ booted
  /\ req.pc \in {"idle", "done"}
  /\ req' = PreChecks([Idle EXCEPT !.pc = "enter", !.method = method, !.path = path,
                                   !.provided = provided, !.kid = kid],
                      DB_AVAILABLE)
  /\ UNCHANGED << api_keys, issued, now, dbUp, booted, DB_AVAILABLE, peer, out, call, users, purchases, cli >>

\* require_api_key, lines 28-34 and 42-47: the SELECT (one row by id when the
\* hint is given, all active rows otherwise) and the verification that follows
\* it up to the first row that verifies.  A failed SELECT raises
\* OperationalError, which leaves the function.
require_api_key_select ==
  /\ req.pc = "select"
  /\ LET r == [req EXCEPT !.reads = req.reads + 1]
     IN  IF ~dbUp
         THEN req' = Done(r, ErrorHandler("OperationalError"))
         ELSE IF Truthy(req.kid)
         THEN \E rows \in {SelectByIdActive(api_keys, req.kid)} :
                IF rows = << >> THEN req' = Done(r, Unauthorized)
                ELSE \E v \in {Verify(req.provided, rows[1].hash)} :
                       req' =
                         IF v.exc # "none" THEN Done(r, ErrorHandler(v.exc))
                         ELSE IF v.val
                              THEN [r EXCEPT !.pc = "commit", !.rows = rows,
                                             !.idx = 1, !.t0 = now]
                         ELSE Done([r EXCEPT !.rows = rows], Unauthorized)
         ELSE \E rows \in SelectAllActive(api_keys) :
              \E i \in {FirstMatch(rows, req.provided, 1)} :
                    req' =
                      IF i = 0 THEN Done([r EXCEPT !.rows = rows], Unauthorized)
                      ELSE [r EXCEPT !.pc = "commit", !.rows = rows,
                                     !.idx = i, !.t0 = now]
  /\ UNCHANGED << api_keys, issued, now, dbUp, booted, DB_AVAILABLE, peer, out, call, users, purchases, cli >>

\* the same UPDATE never reaching the table
TouchRow_NotPersisted(table, id, ts) == table

TouchRow_Reactivating(table, id, ts) ==
  [table EXCEPT ![id].last_used_at = ts, ![id].active = TRUE]

TouchRow_Recreated(table, id, ts) ==
  [table EXCEPT ![id].last_used_at = ts, ![id].created_at = ts]

\* row.last_used_at = ts and the UPDATE the commit sends
TouchRow(table, id, ts) == [table EXCEPT ![id].last_used_at = ts]

\* session.commit() of the row whose last_used_at was set: UPDATE api_keys SET
\* last_used_at = ts WHERE id = row.id.  The result names the exception raised,
\* "none" on success: OperationalError when the database is down,
\* StaleDataError when the UPDATE matches no row.
CommitOutcome(table, up, id) ==
  IF ~up THEN "OperationalError"
  ELSE IF id \notin DOMAIN table THEN "StaleDataError"
  ELSE "none"

\* require_api_key, lines 35-39 and 48-54: the timestamp, taken between the
\* SELECT and the commit, the commit, and what follows it.  With the hint an
\* exception leaves the function; in the loop it is caught and the loop goes
\* on with the next row.
require_api_key_commit ==
  /\ req.pc = "commit"
  /\ \E ts \in req.t0..now, next \in {FirstMatch(req.rows, req.provided, req.idx + 1)} :
       LET row == req.rows[req.idx]
           exc == CommitOutcome(api_keys, dbUp, row.id)
       IN  IF exc = "none"
           THEN /\ api_keys' = TouchRow(api_keys, row.id, ts)
                /\ req' = Done([req EXCEPT !.writes = req.writes + 1,
                                           !.ts = ts, !.api_key_id = row.id],
                               NoResponse)
           ELSE /\ api_keys' = api_keys
                /\ req' = IF Truthy(req.kid) THEN Done(req, ErrorHandler(exc))
                          ELSE IF next = 0 THEN Done(req, Unauthorized)
                          ELSE [req EXCEPT !.idx = next, !.t0 = now]
  /\ UNCHANGED << issued, now, dbUp, booted, DB_AVAILABLE, peer, out, call, users, purchases, cli >>

require_api_key ==
  \/ \E method \in Methods, path \in Paths, provided \in KeyHeaders(issued),
        kid \in IdHeaders :
       require_api_key_enter(method, path, provided, kid)
  \/ require_api_key_select
  \/ require_api_key_commit

(* --------------------------- specification ----------------------------- *)

Next ==
  \/ Tick
  \/ DbFail
  \/ DbRecover
  \/ create_app
  \/ cmd_create
  \/ cmd_activate
  \/ cmd_deactivate
  \/ cmd_delete
  \/ require_api_key

Spec == Init /\ [][Next]_vars

(* ------------- the gate over rows written by other clients ------------- *)

\* The api_keys table is shared with whatever else writes the database (a
\* restore, an SQL console) and its hash column takes any text.  Both keys of
\* the run have been handed out; the first row's hash column holds one of
\* the sample values or the hash that was issued, the second row is as
\* cmd_create wrote it.
StoredTables ==
  { [k \in {IdOf(1), IdOf(2)} |->
       IF k = IdOf(1) THEN Row(IdOf(1), "generated", h, 0)
       ELSE Row(IdOf(2), "generated", HashOf(2), 0)] :
    h \in StoredSamples \cup {HashOf(1)} }

InitStored ==
  /\ api_keys \in StoredTables
  /\ issued = MaxKeys
  /\ now = 0
  /\ dbUp = TRUE
  /\ booted = FALSE
  /\ DB_AVAILABLE = TRUE
  /\ req = Idle
  /\ peer = Idle
  /\ out = NoOutput
  /\ call = NoCall
  /\ users = << >>
  /\ purchases = << >>
  /\ cli = NoCli

NextStored ==
  \/ create_app
  \/ cmd_deactivate
  \/ cmd_delete
  \/ require_api_key

SpecStored == InitStored /\ [][NextStored]_vars

(* ------------------------- two workers at once ------------------------ *)

\* The application is up and the first key has been created.
InitRace ==
  /\ api_keys = [k \in {IdOf(1)} |-> Row(IdOf(1), "generated", HashOf(1), 0)]
  /\ issued = 1
  /\ now = 0
  /\ dbUp = TRUE
  /\ booted = TRUE
  /\ DB_AVAILABLE = TRUE
  /\ req = Idle
  /\ peer = Idle
  /\ out = NoOutput
  /\ call = NoCall
  /\ users = << >>
  /\ purchases = << >>
  /\ cli = NoCli

\* A second worker handles requests with the same code.  Between its steps
\* (at each await on the database, and between requests) a worker may wait
\* while the other one runs: req is the frame of the worker that runs, peer
\* the frame of the one that waits.
Switch ==
  /\ req' = peer
  /\ peer' = req
  /\ UNCHANGED << api_keys, issued, now, dbUp, booted, DB_AVAILABLE, out, call, users, purchases, cli >>

NextRace ==
  \/ Tick
  \/ Switch
  \/ require_api_key

SpecRace == InitRace /\ [][NextRace]_vars

(* ------------------ manage.py with what it prints --------------------- *)

Printed(cmd, kid, changed, key, text) ==
  [cmd |-> cmd, kid |-> kid, changed |-> changed, key |-> key, text |-> text,
   seq |-> 1 - out.seq]

\* res.rowcount of an UPDATE or DELETE ... WHERE id = kid
Rowcount(table, kid) == IF kid \in DOMAIN table THEN 1 ELSE 0

\* python manage.py create: cmd_create and its three printed lines
manage_create ==
  /\ InsertKey("generated")
  /\ out' = Printed("create", IdOf(issued + 1), 1, KeyOf(issued + 1),
                    "Created API key")

KeyExists_ActiveOnly(table) == \E k \in DOMAIN table : table[k].active

\* select(APIKey).limit(1) ... scalar_one_or_none() is not None
KeyExists(table) == DOMAIN table # {}

\* python manage.py init-key
manage_init_key ==
  /\ dbUp
  /\ IF KeyExists(api_keys)
     THEN /\ out' = Printed("init-key", None, 0, None, "An API key already exists")
          /\ UNCHANGED << api_keys, issued, now, dbUp, booted, DB_AVAILABLE,
                          req, peer, call, users, purchases, cli >>
     ELSE /\ InsertKey("default")
          /\ out' = Printed("init-key", IdOf(issued + 1), 1, KeyOf(issued + 1),
                            "Initial API key created")

\* the line cmd_activate, cmd_deactivate and cmd_delete print
Report(changed, done) == IF changed > 0 THEN done ELSE "No API key found"

\* python manage.py activate kid
manage_activate ==
  \E kid \in KeyIds : \E changed \in {Rowcount(api_keys, kid)} :
    /\ _set_active(kid, TRUE)
    /\ out' = Printed("activate", kid, changed, None, Report(changed, "Activated"))

\* python manage.py deactivate kid
manage_deactivate ==
  \E kid \in KeyIds : \E changed \in {Rowcount(api_keys, kid)} :
    /\ _set_active(kid, FALSE)
    /\ out' = Printed("deactivate", kid, changed, None,
                      Report(changed, "Deactivated"))

\* python manage.py delete kid
manage_delete ==
  \E kid \in KeyIds : \E changed \in {Rowcount(api_keys, kid)} :
    /\ DeleteKey(kid)
    /\ out' = Printed("delete", kid, changed, None, Report(changed, "Deleted"))

\* The application has started with the database up and no key yet; the
\* database stays up and the clock stands still: the commands and the
\* requests in any order.
InitCli ==
  /\ api_keys = << >>
  /\ issued = 0
  /\ now = 0
  /\ dbUp = TRUE
  /\ booted = TRUE
  /\ DB_AVAILABLE = TRUE
  /\ req = Idle
  /\ peer = Idle
  /\ out = NoOutput
  /\ call = NoCall
  /\ users = << >>
  /\ purchases = << >>
  /\ cli = NoCli

NextCli ==
  \/ manage_create
  \/ manage_init_key
  \/ manage_activate
  \/ manage_deactivate
  \/ manage_delete
  \/ require_api_key

SpecCli == InitCli /\ [][NextCli]_vars

(* ------------------ init-key invocations side by side ----------------- *)

\* init-key up to the answer of its SELECT: with a row found it prints that a
\* key exists and returns
init_key_select(p) ==
  /\ cli[p].pc = "start"
  /\ dbUp
  /\ cli' = [cli EXCEPT ![p] =
               IF KeyExists(api_keys)
               THEN [pc |-> "done", exists |-> TRUE, kid |-> None,
                     text |-> "An API key already exists"]
               ELSE [pc |-> "insert", exists |-> FALSE, kid |-> None, text |-> ""]]
  /\ UNCHANGED << api_keys, issued, now, dbUp, booted, DB_AVAILABLE, req, peer, out,
                  call, users, purchases >>

\* init-key from new_api_key_record to the end: the INSERT, the commit and
\* the printed lines
init_key_insert(p) ==
  /\ cli[p].pc = "insert"
  /\ dbUp
  /\ issued < MaxKeys
  /\ LET rec == new_api_key_record(CLI_KEY_LENGTH, issued + 1).val
         row == Row(rec[1], "default", rec[3], now)
     IN  /\ api_keys' = [k \in (DOMAIN api_keys) \cup {rec[1]} |->
                           IF k = rec[1] THEN row ELSE api_keys[k]]
         /\ cli' = [cli EXCEPT ![p] = [pc |-> "done", exists |-> FALSE, kid |-> rec[1],
                                       text |-> "Initial API key created"]]
  /\ issued' = issued + 1
  /\ UNCHANGED << now, dbUp, booted, DB_AVAILABLE, req, peer, out, call, users,
                  purchases >>

\* Several operators run init-key against the empty table of a new
\* installation, while the clock runs and the database may go away and come
\* back, and keys that exist are deactivated and activated.
InitInitKey ==
  /\ Init
  /\ dbUp

NextInitKey ==
  \/ Tick
  \/ DbFail
  \/ DbRecover
  \/ \E p \in Invocations : init_key_select(p)
  \/ \E p \in Invocations : init_key_insert(p)
  \/ cmd_activate
  \/ cmd_deactivate

SpecInitKey == InitInitKey /\ [][NextInitKey]_vars

(* ------------------------- app/blueprints ----------------------------- *)

\* platforms seeded by the bootstrap: name -> id, 0 for a name not seeded
PlatformId(name) ==
  CASE name = "spigot" -> 1
    [] name = "polymart" -> 2
    [] OTHER -> 0

\* the resources seeded by the bootstrap: one plugin; slug -> id, 0 for none
ResourceId(slug) == IF slug = "plugin" THEN 1 ELSE 0

\* the external user ids and slugs clients send, and the discord id
ExtUsers == {"7"}

Slugs == {"plugin", "unknown"}

DiscordId == "d1"

\* request.get_json(): a body without the required fields, or with them
Bodies ==
  {[ok |-> FALSE, ext |-> "", slug |-> ""]}
    \cup {[ok |-> TRUE, ext |-> e, slug |-> sl] : e \in ExtUsers, sl \in Slugs}

\* the view function Flask's URL map gives for a method and a path, "" when
\* no view function runs (the automatic OPTIONS answer, 404 and 405)
Route(method, path) ==
  CASE method = "POST" /\ path = "/verify/spigot" -> "verify_spigot"
    [] method = "POST" /\ path = "/verify/polymart" -> "verify_polymart"
    [] method = "DELETE" /\ path = "/users/spigot/7" -> "delete_user"
    [] method = "POST" /\ path = "/users/spigot/7/discord" -> "set_discord"
    [] method = "GET" /\ path = "/resources/" -> "list_resources"
    [] method = "GET" /\ path = "/health" -> "health"
    [] OTHER -> ""

VerifyViews == {"verify_spigot", "verify_polymart"}

UserViews == {"delete_user", "set_discord"}

\* the platform name a view works on: fixed in the verify views, the first
\* URL parameter in the users views
ViewPlatform(fn) == IF fn = "verify_polymart" THEN "polymart" ELSE "spigot"

\* app/models.py User and Purchase: the columns of a row
UserRow(id, platform_id, ext) ==
  [id |-> id, platform_id |-> platform_id, external_user_id |-> ext,
   discord_id |-> ""]

PurchaseRow(id, user_id, resource_id, platform_id) ==
  [id |-> id, user_id |-> user_id, resource_id |-> resource_id,
   platform_id |-> platform_id]

\* the id a new row takes (uuid4 in the program): not the id of a row of the
\* table
NewId(table) ==
  1 + (CHOOSE m \in {0} \cup {table[i].id : i \in 1..Len(table)} :
         \A i \in 1..Len(table) : table[i].id <= m)

\* scalar_one_or_none() over the ids a SELECT found: 0 for no row, the id for
\* one row, -1 for MultipleResultsFound
ScalarOneOrNone(ids) ==
  IF ids = {} THEN 0
  ELSE IF Cardinality(ids) = 1 THEN The(ids)
  ELSE -1

RowsWhere(table, P(_)) == {i \in 1..Len(table) : P(table[i])}

\* select(User).where(platform_id == pid, external_user_id == ext)
SelectUser(table, pid, ext) ==
  LET hit(row) == row.platform_id = pid /\ row.external_user_id = ext
  IN  IF Cardinality(RowsWhere(table, hit)) > 1 THEN -1
      ELSE ScalarOneOrNone({table[i].id : i \in RowsWhere(table, hit)})

\* select(Purchase).where(user_id == uid, resource_id == rid, platform_id == pid)
SelectPurchase(table, uid, rid, pid) ==
  LET hit(row) == row.user_id = uid /\ row.resource_id = rid /\ row.platform_id = pid
  IN  IF Cardinality(RowsWhere(table, hit)) > 1 THEN -1
      ELSE ScalarOneOrNone({table[i].id : i \in RowsWhere(table, hit)})

\* uq_user_platform_external: the INSERT would repeat (platform_id,
\* external_user_id)
UserConflict(table, pid, ext) ==
  \E i \in 1..Len(table) :
    table[i].platform_id = pid /\ table[i].external_user_id = ext

PurchaseConflict_NoConstraint(table, pid, uid, rid) == FALSE

\* uq_purchase_unique: the INSERT would repeat (platform_id, user_id,
\* resource_id)
PurchaseConflict(table, pid, uid, rid) ==
  \E i \in 1..Len(table) :
    table[i].platform_id = pid /\ table[i].user_id = uid /\ table[i].resource_id = rid

\* ForeignKey("users.id") of purchases.user_id
UserExists(table, uid) == \E i \in 1..Len(table) : table[i].id = uid

\* the rows of a table whose id is not among ids, in order
RECURSIVE Without(_, _)
Without(table, ids) ==
  IF table = << >> THEN << >>
  ELSE IF Head(table).id \in ids THEN Without(Tail(table), ids)
  ELSE << Head(table) >> \o Without(Tail(table), ids)

\* the view function returns: its response is sent
Respond(r, status) == [r EXCEPT !.view.pc = "done", !.view.status = status]

\* an exception leaves the view function: Flask's error handlers answer
Fail(r, exc) == Respond(r, ErrorHandler(exc).status)

\* the user of the body has bought the resource of the body on the platform:
\* the three lookups of the verify views, made at once
PurchaseRecorded(platform, ext, slug) ==
  LET pid == PlatformId(platform)
      u == SelectUser(users, pid, ext)
      r == ResourceId(slug)
  IN  u > 0 /\ r > 0 /\ SelectPurchase(purchases, u, r, pid) # 0

\* a dispatch that calls the view function whatever before_request returned
ViewAt_IgnoringGate(pc) == req.pc = "done" /\ req.view.pc = pc

\* the gate returned None and the view function has not returned
ViewAt(pc) == req.pc = "done" /\ req.resp = NoResponse /\ req.view.pc = pc

\* Flask calls the view function of the route once before_request returned
\* None.  The views start with the JSON body and the SELECT of the platform.
view_dispatch ==
  /\ ViewAt("idle")
  /\ \E body \in Bodies, fn \in {Route(req.method, req.path)} :
       req' =
         LET r == [req EXCEPT !.view.fn = fn]
         IN  IF fn = "" THEN Respond(r, IF req.method = "OPTIONS" THEN 200 ELSE 405)
             ELSE IF fn \in {"health", "list_resources"}
                  THEN Respond(r, IF dbUp THEN 200 ELSE 503)
             ELSE IF fn \in VerifyViews \cup {"set_discord"} /\ ~body.ok
                  THEN Respond(r, 400)
             ELSE IF ~dbUp THEN Fail(r, "OperationalError")
             ELSE IF PlatformId(ViewPlatform(fn)) = 0
                  THEN Respond(r, IF fn \in VerifyViews THEN 500 ELSE 404)
             ELSE [r EXCEPT !.view.pc = "user",
                            !.view.platform = ViewPlatform(fn),
                            !.view.ext = IF fn \in VerifyViews THEN body.ext ELSE "7",
                            !.view.slug = IF fn \in VerifyViews THEN body.slug ELSE "",
                            \* kept for the properties, the view holds no such
                            \* value: what the store held when the view began
                            !.view.recorded =
                              /\ fn \in VerifyViews
                              /\ PurchaseRecorded(ViewPlatform(fn), body.ext, body.slug)]
  /\ UNCHANGED << api_keys, issued, now, dbUp, booted, DB_AVAILABLE, peer, out, call,
                  users, purchases, cli >>

\* select(User) by platform and external id.  The verify views go on to
\* insert a user that is missing; the users views answer 404.
view_select_user ==
  /\ ViewAt("user")
  /\ \E u \in {SelectUser(users, PlatformId(req.view.platform), req.view.ext)} :
       req' =
         IF ~dbUp THEN Fail(req, "OperationalError")
         ELSE IF u = -1 THEN Fail(req, "MultipleResultsFound")
         ELSE IF u = 0
              THEN IF req.view.fn \in VerifyViews
                   THEN [req EXCEPT !.view.pc = "insert_user"]
                   ELSE Respond(req, 404)
         ELSE [req EXCEPT !.view.u = u,
                          !.view.pc = IF req.view.fn \in VerifyViews THEN "resource"
                                      ELSE IF req.view.fn = "delete_user" THEN "delete"
                                      ELSE "discord"]
  /\ UNCHANGED << api_keys, issued, now, dbUp, booted, DB_AVAILABLE, peer, out, call,
                  users, purchases, cli >>

\* session.add(User(...)); commit
verify_insert_user ==
  /\ ViewAt("insert_user")
  /\ Len(users) < MaxRows
  /\ \E pid \in {PlatformId(req.view.platform)}, id \in {NewId(users)} :
       IF ~dbUp
       THEN req' = Fail(req, "OperationalError") /\ users' = users
       ELSE IF UserConflict(users, pid, req.view.ext)
       THEN req' = Fail(req, "IntegrityError") /\ users' = users
       ELSE /\ users' = Append(users, UserRow(id, pid, req.view.ext))
            /\ req' = [req EXCEPT !.view.u = id, !.view.pc = "resource",
                                  !.view.inserts = req.view.inserts + 1]
  /\ UNCHANGED << api_keys, issued, now, dbUp, booted, DB_AVAILABLE, peer, out, call,
                  purchases, cli >>

\* select(Resource) by slug
verify_select_resource ==
  /\ ViewAt("resource")
  /\ req' = IF ~dbUp THEN Fail(req, "OperationalError")
            ELSE IF ResourceId(req.view.slug) = 0 THEN Respond(req, 404)
            ELSE [req EXCEPT !.view.r = ResourceId(req.view.slug),
                             !.view.pc = "purchase"]
  /\ UNCHANGED << api_keys, issued, now, dbUp, booted, DB_AVAILABLE, peer, out, call,
                  users, purchases, cli >>

\* select(Purchase) of the user, the resource and the platform: 409 with
\* duplicate when there is one
verify_select_purchase ==
  /\ ViewAt("purchase")
  /\ \E found \in {SelectPurchase(purchases, req.view.u, req.view.r,
                                   PlatformId(req.view.platform))} :
       req' = IF ~dbUp THEN Fail(req, "OperationalError")
              ELSE IF found = -1 THEN Fail(req, "MultipleResultsFound")
              ELSE IF found # 0
                   THEN [Respond(req, 409) EXCEPT !.view.duplicate = TRUE]
              ELSE [req EXCEPT !.view.pc = "insert_purchase"]
  /\ UNCHANGED << api_keys, issued, now, dbUp, booted, DB_AVAILABLE, peer, out, call,
                  users, purchases, cli >>

\* session.add(Purchase(...)); commit
verify_insert_purchase ==
  /\ ViewAt("insert_purchase")
  /\ Len(purchases) < MaxRows
  /\ \E pid \in {PlatformId(req.view.platform)}, id \in {NewId(purchases)} :
       IF ~dbUp
       THEN req' = Fail(req, "OperationalError") /\ purchases' = purchases
       ELSE IF \/ PurchaseConflict(purchases, pid, req.view.u, req.view.r)
               \/ ~UserExists(users, req.view.u)
       THEN req' = Fail(req, "IntegrityError") /\ purchases' = purchases
       ELSE /\ purchases' = Append(purchases,
                                   PurchaseRow(id, req.view.u, req.view.r, pid))
            /\ req' = [Respond(req, 200) EXCEPT !.view.inserts = req.view.inserts + 1]
  /\ UNCHANGED << api_keys, issued, now, dbUp, booted, DB_AVAILABLE, peer, out, call,
                  users, cli >>

\* delete_user: DELETE of the user's purchases, DELETE of the user, commit
delete_user_commit ==
  /\ ViewAt("delete")
  /\ IF ~dbUp
     THEN req' = Fail(req, "OperationalError") /\ UNCHANGED << users, purchases >>
     ELSE /\ purchases' = Without(purchases,
                                  {purchases[i].id : i \in {j \in 1..Len(purchases) :
                                                              purchases[j].user_id = req.view.u}})
          /\ users' = Without(users, {req.view.u})
          /\ req' = [Respond(req, 200) EXCEPT
                       !.view.deletes = (Len(users) - Len(users'))
                                          + (Len(purchases) - Len(purchases'))]
  /\ UNCHANGED << api_keys, issued, now, dbUp, booted, DB_AVAILABLE, peer, out, call,
                  cli >>

\* set_discord: select(User) with the discord id on the platform, other than
\* the user
set_discord_select ==
  /\ ViewAt("discord")
  /\ req' = IF ~dbUp THEN Fail(req, "OperationalError")
            ELSE IF \E i \in 1..Len(users) :
                      /\ users[i].platform_id = PlatformId(req.view.platform)
                      /\ users[i].discord_id = DiscordId
                      /\ users[i].id # req.view.u
                 THEN Respond(req, 409)
            ELSE [req EXCEPT !.view.pc = "update"]
  /\ UNCHANGED << api_keys, issued, now, dbUp, booted, DB_AVAILABLE, peer, out, call,
                  users, purchases, cli >>

\* set_discord: u.discord_id = discord_id; commit
set_discord_commit ==
  /\ ViewAt("update")
  /\ IF ~dbUp
     THEN req' = Fail(req, "OperationalError") /\ users' = users
     ELSE IF ~UserExists(users, req.view.u)
     THEN req' = Fail(req, "StaleDataError") /\ users' = users
     ELSE /\ users' = AsSeq([i \in 1..Len(users) |->
                               IF users[i].id = req.view.u
                               THEN [users[i] EXCEPT !.discord_id = DiscordId]
                               ELSE users[i]])
          /\ req' = [Respond(req, 200) EXCEPT !.view.updates = req.view.updates + 1]
  /\ UNCHANGED << api_keys, issued, now, dbUp, booted, DB_AVAILABLE, peer, out, call,
                  purchases, cli >>

\* the worker is free for the next request: the gate answered, or the view
\* function returned
Served(r) ==
  \/ r.pc = "idle"
  \/ r.pc = "done" /\ (r.resp # NoResponse \/ r.view.pc = "done")

\* The application with its routes, one worker.  The first key exists when
\* the application starts, with the database up or down; the key is
\* deactivated and activated while clients send requests of every kind.
\* the request lines clients send: one per route, a preflight and a method
\* the route does not take
AppRequests ==
  { << "GET", "/health" >>, << "POST", "/verify/spigot" >>,
    << "POST", "/verify/polymart" >>, << "DELETE", "/users/spigot/7" >>,
    << "POST", "/users/spigot/7/discord" >>, << "GET", "/resources/" >>,
    << "OPTIONS", "/verify/spigot" >>, << "GET", "/verify/spigot" >> }

AppIds == {None} \cup KeyIds

InitApp ==
  /\ api_keys = [k \in {IdOf(1)} |-> Row(IdOf(1), "generated", HashOf(1), 0)]
  /\ issued = 1
  /\ now = 0
  /\ dbUp \in BOOLEAN
  /\ booted = FALSE
  /\ DB_AVAILABLE = TRUE
  /\ req = Idle
  /\ peer = Idle
  /\ out = NoOutput
  /\ call = NoCall
  /\ users = << >>
  /\ purchases = << >>
  /\ cli = NoCli

\* a request arrives once the worker has answered the one before
app_request(lines, keys, ids) ==
  /\ Served(req)
  /\ \E line \in lines, provided \in keys, kid \in ids :
       require_api_key_enter(line[1], line[2], provided, kid)

NextApp ==
  \/ create_app
  \/ DbRecover
  \/ cmd_activate
  \/ cmd_deactivate
  \/ app_request(AppRequests, KeyHeaders(issued), AppIds)
  \/ require_api_key_select
  \/ require_api_key_commit
  \/ view_dispatch
  \/ view_select_user
  \/ verify_insert_user
  \/ verify_select_resource
  \/ verify_select_purchase
  \/ verify_insert_purchase
  \/ delete_user_commit
  \/ set_discord_select
  \/ set_discord_commit

SpecApp == InitApp /\ [][NextApp]_vars

(* ------------------- two workers verifying purchases ------------------- *)

\* the two verify routes, called with the key of the store
VerifyRequests == { << "POST", "/verify/spigot" >>, << "POST", "/verify/polymart" >> }

InitVerify ==
  /\ api_keys = [k \in {IdOf(1)} |-> Row(IdOf(1), "generated", HashOf(1), 0)]
  /\ issued = 1
  /\ now = 0
  /\ dbUp = TRUE
  /\ booted = TRUE
  /\ DB_AVAILABLE = TRUE
  /\ req = Idle
  /\ peer = Idle
  /\ out = NoOutput
  /\ call = NoCall
  /\ users = << >>
  /\ purchases = << >>
  /\ cli = NoCli

\* Two workers serve /verify requests; each may wait at any await while the
\* other runs (Switch).
NextVerify ==
  \/ Switch
  \/ app_request(VerifyRequests, {KeyOf(1)}, {IdOf(1)})
  \/ require_api_key_select
  \/ require_api_key_commit
  \/ view_dispatch
  \/ view_select_user
  \/ verify_insert_user
  \/ verify_select_resource
  \/ verify_select_purchase
  \/ verify_insert_purchase

SpecVerify == InitVerify /\ [][NextVerify]_vars

(* ------------------- calls of hash and verify alone -------------------- *)

\* plaintexts, iteration counts and candidates the functions are called with
Plaintexts == { << >>, << "p" >>, << "s", "k", "_", "a" >>, KeyOf(1) }

IterationCounts == {1, 1000, DEFAULT_ITERATIONS}

Candidates(P) == Plaintexts \cup {P \o << "x" >>}

\* hash_api_key(P, iterations=I) with the n-th salt drawn, evaluated once
HashTable ==
  { << P, I, n, hash_api_key(P, I, "pbkdf2", SaltDraw(n)) >> :
      P \in Plaintexts, I \in IterationCounts, n \in Calls }

\* verify_api_key(Q, stored) for each hash returned, evaluated once
RoundTripTable ==
  { << t, Q, verify_api_key(Q, t[4].val) >> :
      t \in {h \in HashTable : h[4].exc = "none"}, Q \in Plaintexts \cup {h[1] \o << "x" >> : h \in HashTable} }

\* verify_api_key(Q, stored) for stored values hash_api_key did not return
SampleTable ==
  { << Q, S, verify_api_key(Q, S) >> :
      Q \in {KeyOf(1), None}, S \in StoredSamples \cup {None, HashOf(1)} }

InitPure ==
  /\ api_keys = << >>
  /\ issued = 0
  /\ now = 0
  /\ dbUp = TRUE
  /\ booted = FALSE
  /\ DB_AVAILABLE = TRUE
  /\ req = Idle
  /\ peer = Idle
  /\ out = NoOutput
  /\ call = NoCall
  /\ users = << >>
  /\ purchases = << >>
  /\ cli = NoCli

CallHash ==
  /\ \E t \in HashTable :
       call' = [fn |-> "hash_api_key", args |-> << t[1], t[2] >>, of |-> << >>,
                result |-> t[4]]
  /\ UNCHANGED << api_keys, issued, now, dbUp, booted, DB_AVAILABLE, req, peer, out,
                  users, purchases, cli >>

\* verify_api_key on the string the last hash_api_key call returned
CallVerifyHashed ==
  /\ call.fn = "hash_api_key"
  /\ call.result.exc = "none"
  /\ \E t \in RoundTripTable :
       /\ t[1][4] = call.result
       /\ t[2] \in Candidates(call.args[1])
       /\ call' = [fn |-> "verify_api_key", args |-> << t[2], call.result.val >>,
                   of |-> call.args, result |-> t[3]]
  /\ UNCHANGED << api_keys, issued, now, dbUp, booted, DB_AVAILABLE, req, peer, out,
                  users, purchases, cli >>

CallVerify ==
  /\ \E t \in SampleTable :
       call' = [fn |-> "verify_api_key", args |-> << t[1], t[2] >>, of |-> << >>,
                result |-> t[3]]
  /\ UNCHANGED << api_keys, issued, now, dbUp, booted, DB_AVAILABLE, req, peer, out,
                  users, purchases, cli >>

\* generate_api_key(length) for each length, with two draws of the operating
\* system's entropy at hand, evaluated once
Lengths == 0..MaxLength

GenerateTable ==
  { << L, generate_api_key(L, << TokenDraw(1, CeilThreeQuarters(L)),
                                TokenDraw(2, CeilThreeQuarters(L)) >>) >> :
      L \in Lengths }

CallGenerate ==
  /\ \E t \in GenerateTable :
       call' = [fn |-> "generate_api_key", args |-> << t[1] >>, of |-> << >>,
                result |-> t[2]]
  /\ UNCHANGED << api_keys, issued, now, dbUp, booted, DB_AVAILABLE, req, peer, out,
                  users, purchases, cli >>

NextPure ==
  \/ CallGenerate
  \/ CallHash
  \/ CallVerifyHashed
  \/ CallVerify

SpecPure == InitPure /\ [][NextPure]_vars

(* ------------------------------ properties ----------------------------- *)

NonExempt(r) == r.pc # "idle" /\ ~Exempt(r.method, r.path)

\* the gate returned None with g.api_key_id bound: the view function runs
Admitted(r) == r.pc = "done" /\ r.resp = NoResponse /\ r.api_key_id # None

Rejected(r, status, error) ==
  r.pc = "done" /\ r.resp.status = status /\ r.resp.error = error

NoStoreAccess(r) == r.reads = 0 /\ r.writes = 0

\* the step that sends the SELECT, and the step that sends the commit
SelectStep == req.pc = "select" /\ req'.pc # "select"

CommitStep == req.pc = "commit" /\ req' # req

\* the table holds an active row id whose hash verifies the key
Usable(table, id, provided) ==
  /\ id \in DOMAIN table
  /\ table[id].active
  /\ Verify(provided, table[id].hash) = Ret(TRUE)

\* the commit of the row at hand reaches the table
CommitSucceeds == dbUp /\ req.rows[req.idx].id \in DOMAIN api_keys

\* C1: a record whose active flag is false never authenticates.  Whenever the
\* gate looks up the store for a request that presents the key issued with a
\* record that is inactive at that moment, with X-API-Key-Id naming that
\* record or with no hint, the request ends 401 unauthorized; and a row the
\* lookup accepts for the commit is active in the store.
C1_Step ==
  (SelectStep /\ dbUp) =>
    /\ \A n \in 1..issued :
         ( /\ req.provided = KeyOf(n)
           /\ IdOf(n) \in DOMAIN api_keys
           /\ ~api_keys[IdOf(n)].active
           /\ (Truthy(req.kid) => req.kid = IdOf(n)) )
         => Rejected(req', 401, "unauthorized")
    /\ req'.pc = "commit" => api_keys[req'.rows[req'.idx].id].active

C1_InactiveNeverAuthenticates == [][C1_Step]_vars

\* C1: a hinted request with the key and the id of a record that is inactive
\* was answered 401 after one lookup that returned no row
C1_Witness ==
  \E n \in 1..issued :
    /\ Rejected(req, 401, "unauthorized")
    /\ req.provided = KeyOf(n) /\ req.kid = IdOf(n)
    /\ req.reads = 1 /\ req.rows = << >>
    /\ IdOf(n) \in DOMAIN api_keys /\ ~api_keys[IdOf(n)].active

\* C2: no cache of records.  The lookup of every request reads the table as it
\* is at that moment: when the record issued with the presented key is then
\* deleted or inactive, the request ends rejected (401, or 503 when the store
\* cannot be reached) and binds no id; and a request is admitted only for a
\* row that its own single SELECT returned.
C2_Step ==
  /\ SelectStep =>
       \A n \in 1..issued :
         ( /\ req.provided = KeyOf(n)
           /\ (IdOf(n) \notin DOMAIN api_keys \/ ~api_keys[IdOf(n)].active) )
         => /\ req'.pc = "done"
            /\ req'.resp.status \in {401, 503}
            /\ req'.api_key_id = None
  /\ (CommitStep /\ Admitted(req')) =>
       /\ req.reads = 1
       /\ req'.api_key_id = req.rows[req.idx].id

C2_DeactivateAndDeleteTakeEffect == [][C2_Step]_vars

\* C2: a request without hint presenting the key of a deleted record was
\* answered 401 after reading the table
C2_Witness ==
  \E n \in 1..issued :
    /\ Rejected(req, 401, "unauthorized")
    /\ req.provided = KeyOf(n) /\ ~Truthy(req.kid)
    /\ req.reads = 1
    /\ IdOf(n) \notin DOMAIN api_keys

\* C3: with DB_AVAILABLE false every non-exempt request ends 503
\* service_unavailable (detail auth_db_down) without a statement sent to the
\* store, whatever its two key headers are
C3_DegradedFlagGives503 ==
  (~DB_AVAILABLE /\ NonExempt(req)) =>
    /\ Rejected(req, 503, "service_unavailable")
    /\ req.resp.detail = "auth_db_down"
    /\ NoStoreAccess(req)

\* C3: a non-exempt request without X-API-Key got 503, not 401, under the flag
C3_Witness ==
  /\ ~DB_AVAILABLE /\ NonExempt(req)
  /\ req.provided = None
  /\ req.resp.status = 503

\* C4: a request for /health or with method OPTIONS passes the gate with no
\* response of the gate, no id bound and no statement sent to the store,
\* whatever its headers and whatever DB_AVAILABLE is
C4_ExemptPassesThrough ==
  (req.pc # "idle" /\ Exempt(req.method, req.path)) =>
    /\ req.pc = "done"
    /\ req.resp = NoResponse
    /\ req.api_key_id = None
    /\ NoStoreAccess(req)

\* C4: an exempt request without a key passed while DB_AVAILABLE was false
C4_Witness ==
  /\ req.pc = "done" /\ Exempt(req.method, req.path)
  /\ ~DB_AVAILABLE
  /\ req.provided = None
  /\ req.resp = NoResponse

\* C5: with DB_AVAILABLE true a non-exempt request whose X-API-Key is absent
\* (or empty) ends 401 with the reason "missing api key", which is not the
\* reason given when verification fails, and no statement is sent to the store
C5_MissingKeyReason ==
  (DB_AVAILABLE /\ NonExempt(req) /\ ~Truthy(req.provided)) =>
    /\ Rejected(req, 401, "missing api key")
    /\ req.resp.error # Unauthorized.error
    /\ NoStoreAccess(req)

\* C5: a non-exempt request without the header, but with a key id, got 401
C5_Witness ==
  /\ DB_AVAILABLE /\ NonExempt(req)
  /\ req.provided = None /\ Truthy(req.kid)
  /\ req.resp.status = 401

\* C6: hinted path.  When X-API-Key-Id names a row that is active and whose
\* hash verifies X-API-Key, the lookup accepts that row; and when its commit
\* reaches the table the request is admitted, the row's last_used_at is the
\* time taken between the lookup and the commit, no other column or row
\* changes, and g.api_key_id is the row's id.
C6_Step ==
  /\ (SelectStep /\ dbUp /\ Truthy(req.kid) /\ Usable(api_keys, req.kid, req.provided))
       => /\ req'.pc = "commit"
          /\ req'.rows[req'.idx].id = req.kid
  /\ (CommitStep /\ Truthy(req.kid) /\ CommitSucceeds)
       => /\ Admitted(req')
          /\ req'.api_key_id = req.kid
          /\ req'.ts \in req.t0..now
          /\ api_keys' = [api_keys EXCEPT ![req.kid].last_used_at = req'.ts]

C6_HintedAdmit == [][C6_Step]_vars

\* C6: a hinted request was admitted and the row's last_used_at holds its time
C6_Witness ==
  /\ Admitted(req) /\ Truthy(req.kid)
  /\ req.api_key_id = req.kid
  /\ req.kid \in DOMAIN api_keys
  /\ api_keys[req.kid].last_used_at = req.ts
  /\ req.ts >= 1
  /\ req.writes = 1

\* C7: the hinted path never falls back to the scan.  When X-API-Key-Id is
\* given and names no active row whose hash verifies the key, the lookup ends
\* the request 401 unauthorized after one SELECT and without a write, whatever
\* the other rows are.
C7_Step ==
  (SelectStep /\ dbUp /\ Truthy(req.kid) /\ ~Usable(api_keys, req.kid, req.provided))
    => /\ Rejected(req', 401, "unauthorized")
       /\ req'.reads = 1 /\ req'.writes = 0
       /\ req'.api_key_id = None
       /\ api_keys' = api_keys

C7_NoFallbackToScan == [][C7_Step]_vars

\* C7: a request with the key of one active record and the id of another
\* active record was answered 401 after one SELECT
C7_Witness ==
  \E n, m \in 1..issued :
    /\ n # m
    /\ Rejected(req, 401, "unauthorized")
    /\ req.provided = KeyOf(n) /\ req.kid = IdOf(m)
    /\ req.reads = 1 /\ req.writes = 0
    /\ Len(req.rows) = 1
    /\ Usable(api_keys, IdOf(n), KeyOf(n))
    /\ IdOf(m) \in DOMAIN api_keys /\ api_keys[IdOf(m)].active

\* C8: scan path.  For a request with X-API-Key and no X-API-Key-Id the
\* lookup accepts a row exactly when some active row's hash verifies the key,
\* the row it accepts is the first of the rows read that verifies, and with no
\* such row the request ends 401 unauthorized; when the commit reaches the
\* table the request is admitted, only that row's last_used_at changes and
\* g.api_key_id is its id.
C8_Step ==
  /\ (SelectStep /\ dbUp /\ ~Truthy(req.kid))
       => /\ (req'.pc = "commit") <=>
               (\E id \in DOMAIN api_keys : Usable(api_keys, id, req.provided))
          /\ req'.pc # "commit" => Rejected(req', 401, "unauthorized")
          /\ req'.pc = "commit" =>
               /\ Usable(api_keys, req'.rows[req'.idx].id, req.provided)
               /\ \A j \in 1..(req'.idx - 1) :
                    Verify(req.provided, req'.rows[j].hash) # Ret(TRUE)
  /\ (CommitStep /\ ~Truthy(req.kid) /\ CommitSucceeds)
       => /\ Admitted(req')
          /\ req'.api_key_id = req.rows[req.idx].id
          /\ req'.ts \in req.t0..now
          /\ api_keys' = [api_keys EXCEPT ![req.rows[req.idx].id].last_used_at = req'.ts]

C8_ScanAdmitsIffMatch == [][C8_Step]_vars

\* C8: a request without hint was admitted on the first of two rows read, and
\* the second row's last_used_at is untouched
C8_Witness ==
  /\ Admitted(req) /\ ~Truthy(req.kid)
  /\ Len(req.rows) = 2 /\ req.idx = 1
  /\ req.api_key_id = req.rows[1].id
  /\ req.api_key_id \in DOMAIN api_keys
  /\ api_keys[req.api_key_id].last_used_at = req.ts
  /\ req.rows[2].id \in DOMAIN api_keys
  /\ api_keys[req.rows[2].id].last_used_at = NULL

\* C9: on both paths, once the key has verified against a row, a failure of
\* the store while the commit persists last_used_at leaves the request
\* admitted
C9_WriteFailureStillAdmits == [][(CommitStep /\ ~dbUp) => Admitted(req')]_vars

\* C10: a connectivity error of the store during a request is never swallowed:
\* the step that meets it, the lookup or the commit, ends the request 503
\* service_unavailable, never 401 and never with further rows tried
C10_ConnectivityErrorGives503 ==
  [][((SelectStep \/ CommitStep) /\ ~dbUp)
       => Rejected(req', 503, "service_unavailable")]_vars

\* C11: one rejection outcome.  With the store up, every request that carries
\* an X-API-Key and is not admitted is answered 401 unauthorized, whether the
\* id is unknown, the record inactive, the key wrong or the stored hash
\* malformed.
C11_SingleRejectionOutcome ==
  (req.pc = "done" /\ NonExempt(req) /\ Truthy(req.provided) /\ ~Admitted(req))
    => req.resp = Unauthorized

\* the stored values the claim lists as malformed: not a string, empty,
\* without "$", not four fields, another tag, an iteration field that is no
\* non-negative integer, a salt or digest field that does not decode
MalformedStored ==
  { None, EmptyStored, NoDollar, ThreeFields, FiveFields, FiveFieldsPadded,
    WrongTag, IterNotInt, IterNegative, BadSalt, BadDigest }

\* C12: verify_api_key raises no exception whatever stored is, and returns
\* False whenever stored is malformed
C12_VerifyNeverRaises ==
  call.fn = "verify_api_key" =>
    /\ call.result.exc = "none"
    /\ call.args[2] \in MalformedStored => call.result.val = FALSE

\* C13: for plaintexts P, Q and an iteration count I >= 1, hash_api_key(P, I)
\* returns, and verify_api_key(Q, hash_api_key(P, I)) returns True exactly
\* when Q = P
C13_RoundTrip ==
  /\ call.fn = "hash_api_key" => call.result.exc = "none"
  /\ (call.fn = "verify_api_key" /\ call.of # << >>) =>
       /\ call.result.exc = "none"
       /\ call.result.val = (call.args[1] = call.of[1])

\* C13: the key extended by "x" was refused for a hash made with the default
\* iteration count
C13_Witness ==
  /\ call.fn = "verify_api_key"
  /\ call.of = << KeyOf(1), DEFAULT_ITERATIONS >>
  /\ call.args[1] = KeyOf(1) \o << "x" >>
  /\ call.result = Ret(FALSE)

\* C14: for every record last_used_at never moves to an earlier value, under
\* any interleaving of requests that verify against the same record
C14_LastUsedMonotonic ==
  [][\A id \in (DOMAIN api_keys) \cap (DOMAIN api_keys') :
       api_keys'[id].last_used_at >= api_keys[id].last_used_at]_vars

\* C15: last_used_at is NULL in a row from its creation until the first
\* request admitted on it, and changes only in the commit of a request whose
\* key verified against that row and which is admitted on it.  No other step
\* (a rejected, 503 or exempt request, create, activate, deactivate, delete of
\* another row) changes the last_used_at of any row.
C15_Step ==
  /\ \A id \in (DOMAIN api_keys') \ (DOMAIN api_keys) :
       api_keys'[id].last_used_at = NULL
  /\ \A id \in (DOMAIN api_keys) \cap (DOMAIN api_keys') :
       api_keys'[id].last_used_at # api_keys[id].last_used_at
         => /\ CommitStep
            /\ req.rows[req.idx].id = id
            /\ Verify(req.provided, req.rows[req.idx].hash) = Ret(TRUE)
            /\ req.rows[req.idx].hash = api_keys[id].hash
            /\ Admitted(req')
            /\ req'.api_key_id = id
            /\ api_keys'[id].last_used_at = req'.ts

C15_LastUsedSetOnlyOnAdmit == [][C15_Step]_vars

\* C15: two rows, one a request was admitted on and one never used
C15_Witness ==
  /\ Admitted(req)
  /\ req.api_key_id \in DOMAIN api_keys
  /\ api_keys[req.api_key_id].last_used_at # NULL
  /\ \E id \in DOMAIN api_keys : api_keys[id].last_used_at = NULL

\* C16: hash and created_at of a row keep the values written at creation for
\* as long as the row exists: no request through the gate, no activate and no
\* deactivate, and no other step, changes them.
C16_Step ==
  \A id \in (DOMAIN api_keys) \cap (DOMAIN api_keys') :
    /\ api_keys'[id].hash = api_keys[id].hash
    /\ api_keys'[id].created_at = api_keys[id].created_at

C16_HashAndCreatedAtFixed == [][C16_Step]_vars

\* C16: a row created at time 0, used at time 1 and then deactivated still
\* holds the hash and the creation time it was inserted with
C16_Witness ==
  \E n \in Calls :
    /\ IdOf(n) \in DOMAIN api_keys
    /\ api_keys[IdOf(n)].last_used_at > api_keys[IdOf(n)].created_at
    /\ ~api_keys[IdOf(n)].active
    /\ api_keys[IdOf(n)].hash = HashOf(n)
    /\ api_keys[IdOf(n)].created_at = 0

\* a run of manage.py has just ended, and it was the given subcommand
CliStep(cmd) == out'.seq # out.seq /\ out'.cmd = cmd

\* C17: init-key creates a record only when the table holds no row at all,
\* inactive rows counted: then exactly one row is added, active, and its id
\* and the plaintext its hash verifies are printed.  When the table holds a
\* row, it prints that a key already exists and the table is unchanged.
C17_Step ==
  CliStep("init-key") =>
    IF api_keys = << >>
    THEN /\ out'.text = "Initial API key created"
         /\ DOMAIN api_keys' = {out'.kid}
         /\ api_keys'[out'.kid].active
         /\ api_keys'[out'.kid].name = "default"
         /\ Verify(out'.key, api_keys'[out'.kid].hash) = Ret(TRUE)
    ELSE /\ out'.text = "An API key already exists"
         /\ out'.key = None
         /\ api_keys' = api_keys

C17_InitKeyOnlyOnEmptyStore == [][C17_Step]_vars

\* C17: init-key has run on a table whose only row is inactive and has
\* reported that a key exists
C17_Witness ==
  /\ out.cmd = "init-key"
  /\ out.text = "An API key already exists"
  /\ Cardinality(DOMAIN api_keys) = 1
  /\ \A k \in DOMAIN api_keys : ~api_keys[k].active /\ api_keys[k].name = "default"

\* C18: create adds exactly one row, under an id no earlier key had, active,
\* with last_used_at NULL and a hash that verifies the printed plaintext, and
\* leaves every other row as it was.  A request that presents the printed
\* plaintext before any other command runs, with the printed id as
\* X-API-Key-Id or without that header, is admitted on the new row.
C18_Step ==
  /\ CliStep("create") =>
       /\ out'.kid \notin {IdOf(n) : n \in 1..issued}
       /\ out'.kid \notin DOMAIN api_keys
       /\ DOMAIN api_keys' = (DOMAIN api_keys) \cup {out'.kid}
       /\ \A k \in DOMAIN api_keys : api_keys'[k] = api_keys[k]
       /\ api_keys'[out'.kid].id = out'.kid
       /\ api_keys'[out'.kid].active
       /\ api_keys'[out'.kid].last_used_at = NULL
       /\ Verify(out'.key, api_keys'[out'.kid].hash) = Ret(TRUE)
  /\ (SelectStep /\ out.cmd = "create" /\ req.provided = out.key
        /\ req.kid \in {None, << >>, out.kid})
       => /\ req'.pc = "commit"
          /\ req'.rows[req'.idx].id = out.kid
  /\ (CommitStep /\ out.cmd = "create" /\ req.provided = out.key
        /\ req.kid \in {None, << >>, out.kid})
       => /\ Admitted(req')
          /\ req'.api_key_id = out.kid

C18_CreateThenAdmit == [][C18_Step]_vars

\* C18: the second key was created and a request presenting it without a hint
\* was admitted on its row, the first row still in the table
C18_Witness ==
  /\ out.cmd = "create"
  /\ Cardinality(DOMAIN api_keys) = 2
  /\ Admitted(req)
  /\ req.provided = out.key
  /\ req.kid = None
  /\ req.api_key_id = out.kid
  /\ api_keys[out.kid].last_used_at # NULL

\* C19: activate (deactivate) of an id that is in the table sets that row's
\* active flag to true (false) whatever it was before, and reports one
\* affected row; for an id that is not in the table it reports that no key
\* was found, with zero affected.  In both cases no other field of the row
\* and no other row changes.
C19_Step ==
  \A cmd \in {"activate", "deactivate"} :
    CliStep(cmd) =>
      IF out'.kid \in DOMAIN api_keys
      THEN /\ out'.changed = 1
           /\ out'.text = (IF cmd = "activate" THEN "Activated" ELSE "Deactivated")
           /\ api_keys' = [api_keys EXCEPT ![out'.kid].active = (cmd = "activate")]
      ELSE /\ out'.changed = 0
           /\ out'.text = "No API key found"
           /\ api_keys' = api_keys

C19_SetActiveEffect == [][C19_Step]_vars

\* C19: a row that a request was admitted on has been deactivated, next to
\* another row that is still active
C19_Witness ==
  /\ out.cmd = "deactivate"
  /\ out.changed = 1
  /\ out.kid \in DOMAIN api_keys
  /\ ~api_keys[out.kid].active
  /\ api_keys[out.kid].last_used_at # NULL
  /\ \E k \in (DOMAIN api_keys) \ {out.kid} : api_keys[k].active

\* the n-th key was created and its row is no longer in the table
Removed(n) == n <= issued /\ IdOf(n) \notin DOMAIN api_keys

\* C20: removed is terminal.  delete of an id in the table removes that row
\* and no other and reports it deleted.  Once a row is removed it never comes
\* back; activate, deactivate and delete of its id report that no key was
\* found and leave the table unchanged; a request that presents its key, with
\* its id as X-API-Key-Id or without a hint, and looks up the table after the
\* removal ends 401 unauthorized, and no request is admitted on a removed
\* row.  Only delete takes a row out of the table.
C20_Step ==
  /\ (CliStep("delete") /\ out'.kid \in DOMAIN api_keys)
       => /\ out'.changed = 1
          /\ out'.text = "Deleted"
          /\ DOMAIN api_keys' = (DOMAIN api_keys) \ {out'.kid}
          /\ \A k \in DOMAIN api_keys' : api_keys'[k] = api_keys[k]
  /\ \A n \in Calls :
       Removed(n) =>
         /\ IdOf(n) \notin DOMAIN api_keys'
         /\ \A cmd \in {"activate", "deactivate", "delete"} :
              (CliStep(cmd) /\ out'.kid = IdOf(n))
                => /\ out'.changed = 0
                   /\ out'.text = "No API key found"
                   /\ api_keys' = api_keys
         /\ (SelectStep /\ req.provided = KeyOf(n) /\ req.kid \in {None, << >>, IdOf(n)})
              => Rejected(req', 401, "unauthorized")
         /\ (CommitStep /\ req.rows[req.idx].id = IdOf(n))
              => /\ ~Admitted(req')
                 /\ api_keys' = api_keys
  /\ \A id \in (DOMAIN api_keys) \ (DOMAIN api_keys') :
       CliStep("delete") /\ out'.kid = id

C20_RemovedIsTerminal == [][C20_Step]_vars

\* C20: the first row was deleted; an activate of its id found no key, a
\* request with its key and its id was answered 401, and the second row is
\* still there
C20_Witness ==
  /\ Removed(1)
  /\ IdOf(2) \in DOMAIN api_keys
  /\ out.cmd = "activate"
  /\ out.kid = IdOf(1)
  /\ out.changed = 0
  /\ req.provided = KeyOf(1)
  /\ req.kid = IdOf(1)
  /\ Rejected(req, 401, "unauthorized")
  /\ req.reads = 1

\* C21: for every plaintext P that hash_api_key accepts, the string it
\* returns is not P and does not contain P as a substring
C21_HashHidesPlaintext ==
  (call.fn = "hash_api_key" /\ call.result.exc = "none")
    => /\ call.result.val # call.args[1]
       /\ ~Contains(call.result.val, call.args[1])

\* C22: for every integer length >= 8 generate_api_key(length) returns "sk_"
\* followed by a token of at least length characters (the loop that appends
\* further draws ends); for length < 8 it raises ValueError and returns no key
C22_GenerateKey ==
  call.fn = "generate_api_key" =>
    IF call.args[1] >= 8
    THEN /\ call.result.exc = "none"
         /\ SubSeq(call.result.val, 1, 3) = KeyPrefix
         /\ Len(call.result.val) - Len(KeyPrefix) >= call.args[1]
    ELSE call.result = Raise("ValueError")

\* C22: a key of length 13 was generated: 10 random bytes give 14 characters
C22_Witness ==
  /\ call.fn = "generate_api_key"
  /\ call.args[1] = 13
  /\ call.result.exc = "none"
  /\ Len(call.result.val) = 16

\* a request arrives at the before_request hook
EnterStep == req.pc \in {"idle", "done"} /\ req'.pc # "idle" /\ req' # req

\* C23: a failed connection to the store at request time sets the degraded
\* flag.  When a request has ended because its connection to the database
\* failed, the next request that is not exempt is answered 503
\* service_unavailable without a statement sent to the store.
C23_Step ==
  (EnterStep /\ req.pc = "done" /\ req.resp = ErrorHandler("OperationalError")
     /\ ~Exempt(req'.method, req'.path))
    => /\ Rejected(req', 503, "service_unavailable")
       /\ NoStoreAccess(req')

C23_FailedConnectionSetsFlag == [][C23_Step]_vars

\* C24: init-key is a one-time bootstrap under concurrency.  Of several
\* init-key invocations started against an empty table, in any interleaving,
\* at most one creates a record, and every other one that has ended reported
\* that a key already exists.
C24_InitKeyOnce ==
  LET created == {p \in Invocations : cli[p].text = "Initial API key created"}
  IN  /\ Cardinality(created) <= 1
      /\ \A p \in Invocations \ created :
           cli[p].pc = "done" => cli[p].text = "An API key already exists"

\* C25: a request through the gate writes at most one field of at most one
\* row, the last_used_at of the row it matched.  No step of the gate adds or
\* removes a row or changes a row's active flag, so a row deactivated or
\* deleted between the request's SELECT and its commit stays inactive or
\* stays removed.
C25_Step ==
  req' # req =>
    /\ DOMAIN api_keys' = DOMAIN api_keys
    /\ \A id \in DOMAIN api_keys :
         \/ api_keys'[id] = api_keys[id]
         \/ /\ CommitStep
            /\ id = req.rows[req.idx].id
            /\ req'.writes = 1
            /\ api_keys'[id] = [api_keys[id] EXCEPT !.last_used_at = req'.ts]

C25_GateWritesLastUsedOnly == [][C25_Step]_vars

\* C25: the row a hinted request had read was deleted before its commit, and
\* the commit brought nothing back
C25_Witness ==
  /\ req.pc = "done"
  /\ req.resp = ErrorHandler("StaleDataError")
  /\ req.rows[req.idx].id \notin DOMAIN api_keys
  /\ req.writes = 0

\* C27: once DB_AVAILABLE is false no step of the running process sets it
\* back to true, and every request that is not exempt and arrives from then
\* on is answered 503 without a statement sent to the store, also when the
\* database accepts connections again.
C27_Step ==
  ~DB_AVAILABLE =>
    /\ ~DB_AVAILABLE'
    /\ (EnterStep /\ ~Exempt(req'.method, req'.path))
         => /\ Rejected(req', 503, "service_unavailable")
            /\ NoStoreAccess(req')

C27_DegradedFlagIsPermanent == [][C27_Step]_vars

\* C27: the database is back and a key was created after the failed start,
\* and a request with that key and its id was answered 503
C27_Witness ==
  /\ ~DB_AVAILABLE
  /\ dbUp
  /\ IdOf(1) \in DOMAIN api_keys
  /\ req.provided = KeyOf(1)
  /\ req.kid = IdOf(1)
  /\ ~Exempt(req.method, req.path)
  /\ Rejected(req, 503, "service_unavailable")
  /\ NoStoreAccess(req)

\* the view functions of /verify, /resources and /users
GatedViews == VerifyViews \cup UserViews \cup {"list_resources"}

\* C26: the view functions of /verify, /resources and /users run only for
\* requests the gate admitted or passed through as OPTIONS.  For a request the
\* gate ended with a response (401, 503) no view function runs, and rows of
\* users and purchases are inserted, changed or deleted only by a step of the
\* view function of an admitted request.
C26_Step ==
  /\ req'.view.fn \in GatedViews
       => /\ req'.pc = "done"
          /\ req'.resp = NoResponse
          /\ Admitted(req') \/ req'.method = "OPTIONS"
  /\ (req'.pc = "done" /\ req'.resp # NoResponse) => req'.view = NoView
  /\ (users' # users \/ purchases' # purchases)
       => /\ Admitted(req)
          /\ req.view.fn \in GatedViews
          /\ req'.view # req.view
          /\ req'.view.inserts + req'.view.updates + req'.view.deletes > 0

C26_ViewsRunOnlyWhenAdmitted == [][C26_Step]_vars

\* C26: a user and a purchase were recorded, and a request for the same
\* verification without a valid key was answered 401 and left both tables alone
C26_Witness ==
  /\ Len(users) = 1
  /\ Len(purchases) = 1
  /\ req.method = "POST"
  /\ req.path = "/verify/spigot"
  /\ Rejected(req, 401, "unauthorized")
  /\ req.view = NoView

\* no two rows of purchases with the same platform, user and resource
UniquePurchases ==
  \A i, j \in 1..Len(purchases) :
    ( /\ purchases[i].platform_id = purchases[j].platform_id
      /\ purchases[i].user_id = purchases[j].user_id
      /\ purchases[i].resource_id = purchases[j].resource_id ) => i = j

\* no two rows of users with the same platform and external user id
UniqueUsers ==
  \A i, j \in 1..Len(users) :
    ( /\ users[i].platform_id = users[j].platform_id
      /\ users[i].external_user_id = users[j].external_user_id ) => i = j

\* a verification of a purchase the store held when it began inserts nothing
\* and, once answered, has answered 409 with duplicate
AnswersDuplicate(r) ==
  (r.view.fn \in VerifyViews /\ r.view.recorded)
    => /\ r.view.inserts = 0
       /\ r.view.pc = "done" => (r.view.status = 409 /\ r.view.duplicate)

\* C28: after any interleaving of admitted /verify/spigot and /verify/polymart
\* requests of two workers the store holds at most one Purchase per
\* (platform, user, resource) and at most one User per (platform, external
\* user id), and a verification of a purchase that was recorded when it began
\* answers 409 with duplicate=true and inserts nothing.
C28_VerifiedOnce ==
  /\ UniquePurchases
  /\ UniqueUsers
  /\ AnswersDuplicate(req)
  /\ AnswersDuplicate(peer)

\* C28: both workers verified the same purchase at once, one INSERT was
\* refused, and the next verification of that purchase was answered 409
C28_Witness ==
  /\ Len(purchases) >= 1
  /\ req.view.recorded
  /\ req.view.pc = "done"
  /\ req.view.status = 409
  /\ req.view.duplicate
  /\ peer.view.pc = "done"
  /\ peer.view.status = 500

============================================================================
